---- MODULE Spec2Model ----
(***************************************************************************)
(* Model of fuzzy/combinators.py: the twelve combinator factories and the  *)
(* inner evaluators f(x) they return.                                      *)
(*                                                                         *)
(* A combinator only ever looks at its operands through a(x) and b(x), so  *)
(* an operand is represented by its value at the evaluation point x (av,   *)
(* bv) and by the number of times it has been called (acalls, bcalls).     *)
(* Numbers are exact rationals <<numerator, denominator>> in lowest terms  *)
(* with a positive denominator; the only inexact Python operation that is  *)
(* modelled is ** with a fractional exponent (see Pow).                    *)
(***************************************************************************)
EXTENDS Integers, Sequences, FiniteSets, TLC

\* ---- bounds of the model -------------------------------------------------
\* operand values in [0,1] are the multiples of 1/GridDen
GridDen == 4
\* how many times the result of an evaluation is fed back as operand a
MaxDepth == 1
\* an inexact square root is rounded down to a multiple of 1/SqrtPrec
SqrtPrec == 64

\* ---- exact rational arithmetic (Python's +, -, *, <, <= on numbers) ------
Abs(n) == IF n < 0 THEN -n ELSE n

RECURSIVE GCD(_, _)
GCD(m, n) == IF n = 0 THEN m ELSE GCD(n, m % n)

\* the rational n/d (d # 0) in lowest terms with a positive denominator
Q(n, d) ==
    LET g == GCD(Abs(n), Abs(d))
        s == IF d < 0 THEN -1 ELSE 1
    IN  << (s * n) \div g, (s * d) \div g >>

Zero == << 0, 1 >>
One == << 1, 1 >>
Two == << 2, 1 >>

Add(p, q) == Q(p[1] * q[2] + q[1] * p[2], p[2] * q[2])
Sub(p, q) == Q(p[1] * q[2] - q[1] * p[2], p[2] * q[2])
Mul(p, q) == Q(p[1] * q[1], p[2] * q[2])
Less(p, q) == p[1] * q[2] < q[1] * p[2]
Leq(p, q) == p[1] * q[2] <= q[1] * p[2]

\* Python's builtin min(p, q) and max(p, q): the first argument wins a tie
PyMin(p, q) == IF Less(q, p) THEN q ELSE p
PyMax(p, q) == IF Less(p, q) THEN q ELSE p

\* ---- outcomes of a Python call --------------------------------------------
\* a call either returns an object or raises; val is only meaningful for
\* kind = "value"
Val(p) == [kind |-> "value", val |-> p]
Raise(e) == [kind |-> e, val |-> Zero]
Complex == [kind |-> "complex", val |-> Zero]
NoOutcome == [kind |-> "none", val |-> Zero]

\* Python's true division p / q
Div(p, q) ==
    IF q[1] = 0 THEN Raise("ZeroDivisionError")
    ELSE Val(Q(p[1] * q[2], p[2] * q[1]))

\* floor of the square root of the natural number n, by bisection
RECURSIVE ISqrtIter(_, _, _)
ISqrtIter(n, lo, hi) ==
    IF hi - lo <= 1 THEN lo
    ELSE LET mid == (lo + hi) \div 2
         IN  IF mid * mid <= n THEN ISqrtIter(n, mid, hi)
             ELSE ISqrtIter(n, lo, mid)

ISqrt(n) == IF n = 0 THEN 0 ELSE ISqrtIter(n, 0, n + 1)

IsSquare(n) == ISqrt(n) * ISqrt(n) = n

\* p ** (1/2) for p >= 0: exact when p is the square of a rational,
\* otherwise rounded down to a multiple of 1/SqrtPrec
Sqrt(p) ==
    IF IsSquare(p[1]) /\ IsSquare(p[2]) THEN Q(ISqrt(p[1]), ISqrt(p[2]))
    ELSE Q(ISqrt((p[1] * SqrtPrec * SqrtPrec) \div p[2]), SqrtPrec)

Half == << 1, 2 >>

\* Python's p ** e for the exponents gamma_op can produce (0, 1/2, 1):
\* anything ** 0 is 1 (0 ** 0 included), a negative base to the power 1/2
\* is a complex number
Pow(p, e) ==
    IF e = Zero THEN Val(One)
    ELSE IF e = One THEN Val(p)
    ELSE IF Less(p, Zero) THEN Complex
    ELSE Val(Sqrt(p))

\* ---- the inner evaluators f(x), given a_x = a(x) and b_x = b(x) ----------
MIN_f(a_x, b_x) == Val(PyMin(a_x, b_x))

MAX_f(a_x, b_x) == Val(PyMax(a_x, b_x))

\* product with the operator mistyped: a(x) + b(x)
product_f_plus(a_x, b_x) == Val(Add(a_x, b_x))

product_f(a_x, b_x) == Val(Mul(a_x, b_x))

\* bounded_sum subtracting a(x)*a(x) instead of a(x)*b(x)
bounded_sum_f_aa(a_x, b_x) == Val(Sub(Add(a_x, b_x), Mul(a_x, a_x)))

bounded_sum_f(a_x, b_x) == Val(Sub(Add(a_x, b_x), Mul(a_x, b_x)))

lukasiewicz_AND_f(a_x, b_x) == Val(PyMin(One, Add(a_x, b_x)))

lukasiewicz_OR_f(a_x, b_x) == Val(PyMax(Zero, Sub(Add(a_x, b_x), One)))

\* einstein_product with the denominator 1 - (a+b-ab) instead of 2 - (a+b-ab)
einstein_product_f_one(a_x, b_x) ==
    Div(Mul(a_x, b_x), Sub(One, Sub(Add(a_x, b_x), Mul(a_x, b_x))))

einstein_product_f(a_x, b_x) ==
    Div(Mul(a_x, b_x), Sub(Two, Sub(Add(a_x, b_x), Mul(a_x, b_x))))

einstein_sum_f(a_x, b_x) ==
    Div(Add(a_x, b_x), Add(One, Mul(a_x, b_x)))

\* defined by the source, but never handed out by hamacher_product
hamacher_product_f(a_x, b_x) ==
    Div(Mul(a_x, b_x), Sub(Add(a_x, b_x), Mul(a_x, b_x)))

\* hamacher_sum with the denominator 1 + ab instead of 1 - ab
hamacher_sum_f_plus(a_x, b_x) ==
    Div(Sub(Add(a_x, b_x), Mul(Mul(Two, a_x), b_x)), Add(One, Mul(a_x, b_x)))

hamacher_sum_f(a_x, b_x) ==
    Div(Sub(Add(a_x, b_x), Mul(Mul(Two, a_x), b_x)), Sub(One, Mul(a_x, b_x)))

lambda_op_f(a_x, b_x, l) ==
    Val(Add(Mul(l, Mul(a_x, b_x)),
            Mul(Sub(One, l), Sub(Add(a_x, b_x), Mul(a_x, b_x)))))

gamma_op_f(a_x, b_x, g) ==
    LET p1 == Pow(Mul(a_x, b_x), Sub(One, g))
        p2 == Pow(Mul(Sub(One, a_x), Sub(One, b_x)), g)
    IN  IF p1.kind = "complex" \/ p2.kind = "complex" THEN Complex
        ELSE Val(Mul(p1.val, p2.val))

\* the guard with the open interval of the docstring: 0 < g < 1
gamma_op_valid_open(g) == Less(Zero, g) /\ Less(g, One)

\* the guard of gamma_op: 0 <= g <= 1
gamma_op_valid(g) == Leq(Zero, g) /\ Leq(g, One)

\* ---- inputs ---------------------------------------------------------------
\* membership degrees: the grid points of [0,1]
Degrees == { Q(k, GridDen) : k \in 0..GridDen }
\* operand values: degrees, and two values outside the unit interval
Vals == Degrees \cup { Q(-1, 2), Q(3, 2) }
\* weights handed to lambda_op (no validation) and gamma_op (validated)
LambdaParams == { Zero, Half, One, Q(3, 2) }
GammaParams == { Q(-1, 10), Zero, Half, One, Q(11, 10) }

InUnit(p) == Leq(Zero, p) /\ Leq(p, One)

\* what a factory call hands back
Function == "function"
None == "None"
ValueError == "ValueError"

\* ---- state ----------------------------------------------------------------
VARIABLES
    pc,      \* "idle", "constructed" (factory returned), "raised" (factory
             \* raised), "evaluated" (the returned object was called)
    op,      \* the factory that was called
    prm,     \* its weight l or g (Zero for the two-argument factories)
    ret,     \* what the factory call produced: Function, None or ValueError
    av, bv,  \* the operands' values a(x), b(x) at the evaluation point
    acalls,  \* how often a has been called since the factory call
    bcalls,  \* how often b has been called since the factory call
    out,     \* the outcome of calling the returned object at x
    depth    \* how many results have been fed back as operand a

vars == << pc, op, prm, ret, av, bv, acalls, bcalls, out, depth >>

Init ==
    /\ pc = "idle"
    /\ op = "none"
    /\ prm = Zero
    /\ ret = None
    /\ av \in Vals
    /\ bv \in Vals
    /\ acalls = 0
    /\ bcalls = 0
    /\ out = NoOutcome
    /\ depth = 0

\* a factory whose body is "def f ...; return f"
Returns(name, p) ==
    /\ pc = "idle"
    /\ pc' = "constructed"
    /\ op' = name
    /\ prm' = p
    /\ ret' = Function
    /\ UNCHANGED << av, bv, acalls, bcalls, out, depth >>

MIN == Returns("MIN", Zero)

MAX == Returns("MAX", Zero)

product == Returns("product", Zero)

bounded_sum == Returns("bounded_sum", Zero)

lukasiewicz_AND == Returns("lukasiewicz_AND", Zero)

lukasiewicz_OR == Returns("lukasiewicz_OR", Zero)

einstein_product == Returns("einstein_product", Zero)

einstein_sum == Returns("einstein_sum", Zero)

\* the body defines f and falls off the end: the call returns None
hamacher_product ==
    /\ pc = "idle"
    /\ pc' = "constructed"
    /\ op' = "hamacher_product"
    /\ prm' = Zero
    /\ ret' = None
    /\ UNCHANGED << av, bv, acalls, bcalls, out, depth >>

hamacher_sum == Returns("hamacher_sum", Zero)

lambda_op == \E l \in LambdaParams : Returns("lambda_op", l)

gamma_op ==
    \E g \in GammaParams :
        IF gamma_op_valid(g)
        THEN Returns("gamma_op", g)
        ELSE /\ pc = "idle"
             /\ pc' = "raised"
             /\ op' = "gamma_op"
             /\ prm' = g
             /\ ret' = ValueError
             /\ UNCHANGED << av, bv, acalls, bcalls, out, depth >>

\* the body of the closure the factory op returned, applied to a(x), b(x)
Apply(name, a_x, b_x, p) ==
    CASE name = "MIN" -> MIN_f(a_x, b_x)
      [] name = "MAX" -> MAX_f(a_x, b_x)
      [] name = "product" -> product_f(a_x, b_x)
      [] name = "bounded_sum" -> bounded_sum_f(a_x, b_x)
      [] name = "lukasiewicz_AND" -> lukasiewicz_AND_f(a_x, b_x)
      [] name = "lukasiewicz_OR" -> lukasiewicz_OR_f(a_x, b_x)
      [] name = "einstein_product" -> einstein_product_f(a_x, b_x)
      [] name = "einstein_sum" -> einstein_sum_f(a_x, b_x)
      [] name = "hamacher_sum" -> hamacher_sum_f(a_x, b_x)
      [] name = "lambda_op" -> lambda_op_f(a_x, b_x, p)
      [] name = "gamma_op" -> gamma_op_f(a_x, b_x, p)

\* the outcome of calling the object r that factory name returned, at a
\* point where the operands are a_x and b_x: None is not callable
CallOutcome(r, name, a_x, b_x, p) ==
    IF r = Function THEN Apply(name, a_x, b_x, p) ELSE Raise("TypeError")

\* the caller evaluates op(a, b)(x): calling a closure evaluates a(x) and
\* b(x) once each and computes the formula; calling None raises TypeError
\* before either operand is touched
Call ==
    /\ pc = "constructed"
    /\ pc' = "evaluated"
    /\ out' = CallOutcome(ret, op, av, bv, prm)
    /\ IF ret = Function
       THEN /\ acalls' = acalls + 1
            /\ bcalls' = bcalls + 1
       ELSE UNCHANGED << acalls, bcalls >>
    /\ UNCHANGED << op, prm, ret, av, bv, depth >>

\* the caller nests: the function just evaluated becomes operand a of the
\* next combinator, next to a fresh operand b
Compose ==
    /\ pc = "evaluated"
    /\ out.kind = "value"
    /\ depth < MaxDepth
    /\ pc' = "idle"
    /\ av' = out.val
    /\ bv' \in Vals
    /\ depth' = depth + 1
    /\ op' = "none"
    /\ prm' = Zero
    /\ ret' = None
    /\ acalls' = 0
    /\ bcalls' = 0
    /\ out' = NoOutcome

Next ==
    \/ MIN
    \/ MAX
    \/ product
    \/ bounded_sum
    \/ lukasiewicz_AND
    \/ lukasiewicz_OR
    \/ einstein_product
    \/ einstein_sum
    \/ hamacher_product
    \/ hamacher_sum
    \/ lambda_op
    \/ gamma_op
    \/ Call
    \/ Compose

Spec == Init /\ [][Next]_vars

TypeOK ==
    /\ pc \in { "idle", "constructed", "raised", "evaluated" }
    /\ ret \in { Function, None, ValueError }
    /\ depth \in 0..MaxDepth
    /\ acalls \in 0..1
    /\ bcalls \in 0..1
\* ---- fuzzy/functions.py (not part of the sources at hand) -----------------
\* inv(f)(x) = 1 - f(x), given f_x = f(x)
inv_f(f_x) == Sub(One, f_x)

\* ---- properties -----------------------------------------------------------
Evaluated(name) == pc = "evaluated" /\ op = name
UnitOperands == InUnit(av) /\ InUnit(bv)
\* a(x)*b(x) and a(x)+b(x)-a(x)*b(x) at the current operands
AB == Mul(av, bv)
AorB == Sub(Add(av, bv), AB)

\* C1: every factory call returns a unary callable, and hamacher_product(a, b)
\* returns f with f(x) = a(x)b(x) / (a(x)+b(x)-a(x)b(x)) wherever that
\* denominator is not zero.
C1_FactoriesReturnCallable ==
    /\ (pc = "constructed" => ret = Function)
    /\ (Evaluated("hamacher_product") /\ AorB # Zero) =>
           /\ out.kind = "value"
           /\ Mul(out.val, AorB) = AB

\* C2: hamacher_product(a, b)(x) with a(x) = b(x) = 0 ends in a division by
\* zero error: no value, and no error of another kind.
C2_HamacherProductZeroDivision ==
    (Evaluated("hamacher_product") /\ av = Zero /\ bv = Zero) =>
        out.kind = "ZeroDivisionError"

\* C3: gamma_op raises its parameter error in the construction call exactly
\* when g < 0 or g > 1, before a function is returned and without calling a
\* or b; for 0 <= g <= 1 it returns a callable, and evaluation never raises
\* the parameter error.
C3_GammaValidatesAtConstruction ==
    /\ pc = "raised" =>
           /\ op = "gamma_op"
           /\ ret = ValueError
           /\ acalls = 0 /\ bcalls = 0
           /\ out = NoOutcome
    /\ (op = "gamma_op" /\ pc # "idle") =>
           /\ (pc = "raised") <=> (Less(prm, Zero) \/ Less(One, prm))
           /\ (pc # "raised") => ret = Function
           /\ (pc = "constructed") => (acalls = 0 /\ bcalls = 0)
           /\ out.kind # ValueError

C3_Witness ==
    /\ pc = "raised"
    /\ op = "gamma_op"
    /\ prm = Q(11, 10)
    /\ ret = ValueError

\* C4 as stated: on operands in [0,1], einstein_product raises a division by
\* zero error exactly at a(x) = b(x) = 1 and returns
\* a(x)b(x) / (2-(a(x)+b(x)-a(x)b(x))) everywhere else.
C4_EinsteinSingularAtOne ==
    (Evaluated("einstein_product") /\ UnitOperands) =>
        IF av = One /\ bv = One
        THEN out.kind = "ZeroDivisionError"
        ELSE /\ out.kind = "value"
             /\ Mul(out.val, Sub(Two, AorB)) = AB

\* C4 as amended: on operands in [0,1], the denominator of einstein_product
\* is at least 1, so the evaluation never raises and returns
\* a(x)b(x) / (2-(a(x)+b(x)-a(x)b(x))) at every pair, which is 1 at
\* a(x) = b(x) = 1.
C4_EinsteinDefinedOnUnit ==
    (Evaluated("einstein_product") /\ UnitOperands) =>
        /\ Leq(One, Sub(Two, AorB))
        /\ out.kind = "value"
        /\ Mul(out.val, Sub(Two, AorB)) = AB
        /\ (av = One /\ bv = One) => out.val = One

C4_Witness ==
    /\ Evaluated("einstein_product")
    /\ av = One /\ bv = One
    /\ out = Val(One)

\* C5: on operands in [0,1], hamacher_sum(a, b)(x) raises a division by zero
\* error, which reaches the caller as it is, if and only if a(x) = b(x) = 1;
\* everywhere else it returns (a(x)+b(x)-2a(x)b(x)) / (1-a(x)b(x)). The
\* construction call never raises.
C5_HamacherSumSingularAtOne ==
    /\ (op = "hamacher_sum" /\ pc # "idle") =>
           (pc # "raised" /\ ret = Function)
    /\ (Evaluated("hamacher_sum") /\ UnitOperands) =>
           /\ (out.kind = "ZeroDivisionError") <=> (av = One /\ bv = One)
           /\ ~(av = One /\ bv = One) =>
                  /\ out.kind = "value"
                  /\ Mul(out.val, Sub(One, AB)) =
                         Sub(Add(av, bv), Mul(Two, AB))

C5_Witness ==
    /\ Evaluated("hamacher_sum")
    /\ av = One /\ bv = One
    /\ out.kind = "ZeroDivisionError"

\* the formula of the combinator name has a non-zero denominator at a_x, b_x
FormulaDefined(name, a_x, b_x) ==
    CASE name = "einstein_product" ->
             Sub(Two, Sub(Add(a_x, b_x), Mul(a_x, b_x))) # Zero
      [] name = "einstein_sum" -> Add(One, Mul(a_x, b_x)) # Zero
      [] name = "hamacher_product" ->
             Sub(Add(a_x, b_x), Mul(a_x, b_x)) # Zero
      [] name = "hamacher_sum" -> Sub(One, Mul(a_x, b_x)) # Zero
      [] OTHER -> TRUE

\* C6: for every combinator (weights l, g in [0,1]) and operands with values
\* in [0,1], the combined function's value, wherever the formula is defined,
\* is a number in [0,1], also when operand a is itself the output of a
\* combinator.
C6_ClosedOnUnitInterval ==
    (/\ pc = "evaluated"
     /\ UnitOperands
     /\ InUnit(prm)
     /\ FormulaDefined(op, av, bv)) =>
        /\ out.kind = "value"
        /\ InUnit(out.val)

\* C7: MIN, MAX, product, bounded_sum, einstein_sum, einstein_product,
\* hamacher_sum and hamacher_product are commutative: op(a, b)(x) and
\* op(b, a)(x) have the same outcome, the same number or the same error.
CommutativeOps ==
    { "MIN", "MAX", "product", "bounded_sum", "einstein_sum",
      "einstein_product", "hamacher_sum", "hamacher_product" }

C8_DeMorganDual ==
    (Evaluated("bounded_sum") /\ UnitOperands) =>
        /\ out.kind = "value"
        /\ out.val = Sub(One, product_f(inv_f(av), inv_f(bv)).val)

C8_Witness ==
    /\ Evaluated("bounded_sum")
    /\ av = Q(1, 4) /\ bv = Q(1, 2)
    /\ out = Val(Q(5, 8))

\* C9: on operands in [0,1], gamma_op(a, b, 0)(x) is the AND a(x)b(x) of
\* product, and gamma_op(a, b, 1)(x) is the OR a(x)+b(x)-a(x)b(x) of
\* bounded_sum.
C9_GammaEndpoints ==
    (Evaluated("gamma_op") /\ UnitOperands) =>
        /\ prm = Zero => out = product_f(av, bv)
        /\ prm = One => out = bounded_sum_f(av, bv)

\* C10: on operands in [0,1] and where the result is defined, an AND variant
\* is at most min(a(x), b(x)) and an OR variant is at least max(a(x), b(x)).
AndVariants ==
    { "MIN", "product", "lukasiewicz_AND", "einstein_product",
      "hamacher_product" }

OrVariants ==
    { "MAX", "bounded_sum", "lukasiewicz_OR", "einstein_sum", "hamacher_sum" }

C10_VariantsBoundedByClassic ==
    (pc = "evaluated" /\ UnitOperands /\ out.kind = "value") =>
        /\ op \in AndVariants => Leq(out.val, PyMin(av, bv))
        /\ op \in OrVariants => Leq(PyMax(av, bv), out.val)
====
